---------------------------- MODULE Spec2Model ----------------------------
(***************************************************************************)
(* A model of pwmfft/oscifft.py: OscilloCsvLoader (load_csv) and           *)
(* DFTFFTProcessor (from_csv_loader, dft and the spectrum queries).        *)
(*                                                                         *)
(* Number representation.  Python floats are modelled exactly on the       *)
(* values the model produces:                                              *)
(*   - times are whole seconds;                                            *)
(*   - frequencies are whole multiples of 1/FreqDen Hz (every bin k/T of   *)
(*     every time axis of the model is such a multiple);                   *)
(*   - voltages are whole volts, spectrum values are fixed-point with      *)
(*     FixedOne units per volt;                                            *)
(*   - a quotient of two amplitudes is kept as the exact fraction          *)
(*     [n, d]; d = 0 is the IEEE result of a division by zero (n = 0: nan, *)
(*     n # 0: inf);                                                        *)
(*   - squares that do not fit TLC's 32-bit integers are kept in two       *)
(*     limbs <<hi, lo>> of base BigBase.                                   *)
(* A numpy value is a record [nd, v]: nd is its number of dimensions       *)
(* (0: scalar or 0-d array, 1: 1-d array) and v the sequence of elements.  *)
(***************************************************************************)
EXTENDS Integers, Sequences, FiniteSets, TLC

(* ------------------------------ bounds -------------------------------- *)
\* rows of a table file: 0 .. MaxSamples
MaxSamples == 6
\* sampling step of a table file in seconds: 1 .. MaxStep
MaxStep == 2
\* columns of a table file: 1 .. MaxCols
MaxCols == 4
\* high level of the channel-1 square wave, in volts
VHigh == 2
\* queried frequencies: p/12 Hz for p in -1 .. MaxFreqNum
MaxFreqNum == 5
\* requested harmonic orders: -1 .. MaxOrder
MaxOrder == 3

(* ------------------------- number resolution --------------------------- *)
FreqDen == 360 * 1000
FixedOne == 10 * 100
BigBase == 10000 * 10000
BigHalf == 100 * 100

(* -------------------------- program constants -------------------------- *)
\* oscifft.py:365, the max_order get_total_harmonic_distribution asks for
THD_MAX_ORDER == 99999
\* oscifft.py:344, contents are percentages
PERCENT == 100

(* ------------------------------ numerics ------------------------------- *)
Abs(x) == IF x < 0 THEN 0 - x ELSE x

\* Python's int(x / y) for y # 0: the quotient truncated toward zero.
TruncDiv(x, y) ==
    IF (x >= 0 /\ y > 0) \/ (x <= 0 /\ y < 0)
    THEN Abs(x) \div Abs(y)
    ELSE 0 - (Abs(x) \div Abs(y))

RECURSIVE SqrtBisect(_, _, _)
SqrtBisect(n, lo, hi) ==
    IF lo >= hi THEN lo
    ELSE LET mid == (lo + hi + 1) \div 2
         IN  IF mid * mid <= n THEN SqrtBisect(n, mid, hi)
                               ELSE SqrtBisect(n, lo, mid - 1)

\* floor of the square root of n, 0 <= n < 2^31
ISqrt(n) == SqrtBisect(n, 0, 46340)

\* hi * BigBase + low as two limbs, for a low that exceeds one limb
BigCarry(hi, low) == << hi + (low \div BigBase), low % BigBase >>

\* hh * BigBase + m * BigHalf + ll as two limbs
BigJoin(hh, m, ll) == BigCarry(hh + (m \div BigHalf), (m % BigHalf) * BigHalf + ll)

\* (h * BigHalf + l) squared
BigSqParts(h, l) == BigJoin(h * h, 2 * h * l, l * l)

\* x * x in two limbs of base BigBase, |x| < BigHalf * BigHalf
BigSq(x) == BigSqParts(Abs(x) \div BigHalf, Abs(x) % BigHalf)

BigAdd(a, b) ==
    << a[1] + b[1] + ((a[2] + b[2]) \div BigBase), (a[2] + b[2]) % BigBase >>

BigLess(a, b) == a[1] < b[1] \/ (a[1] = b[1] /\ a[2] < b[2])

BigZero == << 0, 0 >>

\* x * y > m, decided without forming a product beyond 32 bits
ProductExceeds(x, y, m) ==
    CASE x = 0 \/ y = 0 -> 0 > m
      [] (x > 0) = (y > 0) -> m < 0 \/ Abs(x) > m \div Abs(y)
      [] OTHER -> m < 0 /\ Abs(x) <= (Abs(m) - 1) \div Abs(y)

(* ----------------------------- numpy values ---------------------------- *)
Arr(s) == [nd |-> 1, v |-> s]
Scalar(x) == [nd |-> 0, v |-> << x >>]

\* oscifft.py:4
NULL_ARRAY == Arr(<< >>)

(* ------------------------------ CSV files ------------------------------ *)
(* A file is what load_csv finds under a name: nothing ("missing"), text   *)
(* that is no numeric table ("malformed"), or a table of cols columns and  *)
(* rows data rows below the two header lines.  Column 1 is the time axis   *)
(* (uniform, step dt), column 2 a square wave between VHigh and 0 (the     *)
(* PWM channel), column 3 a constant -1 V, further columns a ramp.         *)
Cell(f, c, i) ==
    CASE c = 1 -> (i - 1) * f.dt
      [] c = 2 -> IF ((i - 1) % 4) < 2 THEN VHigh ELSE 0
      [] c = 3 -> 0 - 1
      [] OTHER -> i

TableFiles ==
    { [name |-> "wave.csv", kind |-> "table", cols |-> c, rows |-> r, dt |-> d] :
        c \in 1..MaxCols, r \in 0..MaxSamples, d \in 1..MaxStep }

NoTable(n, k) == [name |-> n, kind |-> k, cols |-> 0, rows |-> 0, dt |-> 1]

\* The empty name never names a file.
Files ==
    TableFiles \cup
    { NoTable("", "missing"), NoTable("wave.csv", "missing"),
      NoTable("wave.csv", "malformed") }

(***************************************************************************)
(* np.loadtxt(fname, dtype=float64, delimiter=',', skiprows=2).T of a      *)
(* table file: loadtxt squeezes axes of length 1, so a table of one row or *)
(* one column comes back 1-d (its items are scalars), a 1 x 1 table 0-d,   *)
(* and a table without data rows as the empty 1-d array.  The transpose    *)
(* of a 2-d table lists its columns.                                       *)
(***************************************************************************)
LoadTxtT(f) ==
    CASE f.rows = 0 -> [nd |-> 1, items |-> << >>]
      [] f.rows = 1 /\ f.cols = 1 -> [nd |-> 0, items |-> << Scalar(Cell(f, 1, 1)) >>]
      [] f.rows = 1 /\ f.cols > 1 ->
            [nd |-> 1, items |-> [c \in 1..f.cols |-> Scalar(Cell(f, c, 1))]]
      [] f.rows > 1 /\ f.cols = 1 ->
            [nd |-> 1, items |-> [i \in 1..f.rows |-> Scalar(Cell(f, 1, i))]]
      [] OTHER ->
            [nd |-> 2,
             items |-> [c \in 1..f.cols |-> Arr([i \in 1..f.rows |-> Cell(f, c, i)])]]

(* --------------------------- OscilloCsvLoader -------------------------- *)
\* OscilloCsvLoader.__init__
LoaderInit ==
    [filename |-> "", second_values |-> NULL_ARRAY, voltage_values1 |-> NULL_ARRAY,
     voltage_values2 |-> NULL_ARRAY, has_2ch |-> FALSE]

\* lines 53-55: a loader that has been given a name before starts over
LoaderResetNever(l) == l

LoaderReset(l) == IF l.filename # "" THEN LoaderInit ELSE l

\* lines 67-73, the branch on the number of rows of the transposed matrix
LoaderStore(l, m) ==
    IF m.nd = 0 THEN [loader |-> l, status |-> "IndexError"]
    ELSE IF Len(m.items) = 2 THEN
        [loader |-> [l EXCEPT !.second_values = m.items[1],
                              !.voltage_values1 = m.items[2]],
         status |-> "ok"]
    ELSE LET l0 == [l EXCEPT !.has_2ch = TRUE]
             l1 == [l0 EXCEPT !.second_values = m.items[1]]
             l2 == [l1 EXCEPT !.voltage_values1 = m.items[2]]
             l3 == [l2 EXCEPT !.voltage_values2 = m.items[3]]
         IN  CASE Len(m.items) = 0 -> [loader |-> l0, status |-> "IndexError"]
               [] Len(m.items) = 1 -> [loader |-> l1, status |-> "IndexError"]
               [] OTHER -> [loader |-> l3, status |-> "ok"]

\* OscilloCsvLoader.load_csv: the loader it leaves and how the call ends
LoadCsvOutcome(l, f) ==
    LET named == [LoaderReset(l) EXCEPT !.filename = f.name]
    IN  CASE f.kind = "missing" -> [loader |-> named, status |-> "Exception"]
          [] f.kind = "malformed" -> [loader |-> named, status |-> "ValueError"]
          [] OTHER -> LoaderStore(named, LoadTxtT(f))

(* ---------------------------- DFTFFTProcessor --------------------------- *)
\* A value that stands for float nan among the frequencies.
NaN == 0 - BigBase

\* DFTFFTProcessor.__init__
EngineInit(second_values, voltage_values) ==
    [exists |-> TRUE,
     second_values |-> second_values,
     voltage_values |-> voltage_values,
     frequency_for_complex |-> NULL_ARRAY,
     frequency_for_real |-> NULL_ARRAY,
     amplitude_complex |-> NULL_ARRAY,
     amplitude_real |-> NULL_ARRAY,
     max_frequency |-> 0,
     min_frequency |-> 0,
     number_of_sample |-> 0,
     sampling_time |-> 0,
     sampling_period |-> [n |-> 0, d |-> 1]]

\* No DFTFFTProcessor has been constructed yet.
NoEngine == [EngineInit(NULL_ARRAY, NULL_ARRAY) EXCEPT !.exists = FALSE]

\* from_csv_loader without the has_2ch test of line 204
FromCsvLoaderUnchecked(l, ch) ==
    CASE ch = 1 -> [status |-> "ok", made |-> TRUE,
                    engine |-> EngineInit(l.second_values, l.voltage_values1)]
      [] ch = 2 -> [status |-> "ok", made |-> TRUE,
                    engine |-> EngineInit(l.second_values, l.voltage_values2)]
      [] OTHER -> [status |-> "ok", made |-> FALSE, engine |-> NoEngine]

\* DFTFFTProcessor.from_csv_loader: any other ch falls off the end (None)
FromCsvLoaderOutcome(l, ch) ==
    CASE ch = 1 -> [status |-> "ok", made |-> TRUE,
                    engine |-> EngineInit(l.second_values, l.voltage_values1)]
      [] ch = 2 /\ ~l.has_2ch ->
                   [status |-> "ValueError", made |-> FALSE, engine |-> NoEngine]
      [] ch = 2 /\ l.has_2ch ->
                   [status |-> "ok", made |-> TRUE,
                    engine |-> EngineInit(l.second_values, l.voltage_values2)]
      [] OTHER -> [status |-> "ok", made |-> FALSE, engine |-> NoEngine]

(* ------------------------------ numpy.fft ------------------------------ *)
\* FixedOne * cos(2 pi j / N) and FixedOne * sin(2 pi j / N), row N, entry j + 1
CosTab ==
  << <<1000>>,
     <<1000, -1000>>,
     <<1000, -500, -500>>,
     <<1000, 0, -1000, 0>>,
     <<1000, 309, -809, -809, 309>>,
     <<1000, 500, -500, -1000, -500, 500>>,
     <<1000, 623, -223, -901, -901, -223, 623>>,
     <<1000, 707, 0, -707, -1000, -707, 0, 707>> >>

SinTab ==
  << <<0>>,
     <<0, 0>>,
     <<0, 866, -866>>,
     <<0, 1000, 0, -1000>>,
     <<0, 951, 588, -588, -951>>,
     <<0, 866, 866, 0, -866, -866>>,
     <<0, 782, 975, 434, -434, -975, -782>>,
     <<0, 707, 1000, 707, 0, -707, -1000, -707>> >>

RECURSIVE SumTo(_, _)
\* the sum of t[1] .. t[n]
SumTo(t, n) == IF n = 0 THEN 0 ELSE t[n] + SumTo(t, n - 1)

\* numpy.fft.fft of whole volts: X[k] = sum_n x[n] exp(-2 pi i k n / N),
\* in fixed point (entry k + 1 is bin k)
Fft(x) ==
    LET N == Len(x)
    IN  [k \in 1..N |->
          [re |-> SumTo([n \in 1..N |-> x[n] * CosTab[N][(((k - 1) * (n - 1)) % N) + 1]], N),
           im |-> 0 - SumTo([n \in 1..N |-> x[n] * SinTab[N][(((k - 1) * (n - 1)) % N) + 1]], N)]]

\* numpy.fft.ifft of a fixed-point spectrum:
\* x[n] = (1/N) sum_k X[k] exp(+2 pi i k n / N)
Ifft(X) ==
    LET N == Len(X)
        c(k, n) == CosTab[N][(((k - 1) * (n - 1)) % N) + 1]
        s(k, n) == SinTab[N][(((k - 1) * (n - 1)) % N) + 1]
    IN  [n \in 1..N |->
          [re |-> TruncDiv(SumTo([k \in 1..N |-> X[k].re * c(k, n) - X[k].im * s(k, n)], N),
                           FixedOne * N),
           im |-> TruncDiv(SumTo([k \in 1..N |-> X[k].re * s(k, n) + X[k].im * c(k, n)], N),
                           FixedOne * N)]]

\* the k of bin j (0-based) in numpy.fft.fftfreq's layout
\* [0, 1, ..., (n-1)//2, -(n//2), ..., -1]
FftBin(n, j) == IF j < ((n - 1) \div 2) + 1 THEN j ELSE j - n

\* numpy.fft.fftfreq(n, d) for the period d = [n |-> span, d |-> count]:
\* bin * (1 / (n * d)), in units of 1/FreqDen Hz.  A zero period gives
\* 1/0 = inf; the only array with a zero span is the one-sample array, whose
\* single bin is 0 * inf = nan.
FftFreq(n, d) ==
    [j \in 1..n |->
        IF n * d.n = 0 THEN NaN
        ELSE (FftBin(n, j - 1) * d.d * FreqDen) \div (n * d.n)]

\* np.abs of a fixed-point complex number
CAbs(z) == ISqrt(z.re * z.re + z.im * z.im)

RECURSIVE SeqMax(_, _)
SeqMax(s, n) == IF n = 1 THEN s[1]
                ELSE LET m == SeqMax(s, n - 1) IN IF s[n] > m THEN s[n] ELSE m

RECURSIVE SeqMin(_, _)
SeqMin(s, n) == IF n = 1 THEN s[1]
                ELSE LET m == SeqMin(s, n - 1) IN IF s[n] < m THEN s[n] ELSE m

\* s[:] of a sequence: the slice without its bound
PrefixWhole(s, n) == s

\* s[:n] of a sequence
Prefix(s, n) == SubSeq(s, 1, IF n < Len(s) THEN n ELSE Len(s))

(***************************************************************************)
(* DFTFFTProcessor.dft: the engine it leaves and how the call ends.  The   *)
(* fields are assigned line by line, so a call that raises leaves the      *)
(* fields assigned before the raising line.                                *)
(***************************************************************************)
DftOutcome(e) ==
    IF e.second_values.nd = 0
    THEN [engine |-> e, status |-> "TypeError"]                  \* len() of a scalar
    ELSE
    LET t == e.second_values.v
        N == Len(t)
        e1 == [e EXCEPT !.number_of_sample = N]
    IN  IF N = 0
        THEN [engine |-> e1, status |-> "ValueError"]            \* np.max of nothing
        ELSE
        LET span == SeqMax(t, N) - SeqMin(t, N)
            period == [n |-> span, d |-> N]
            fc == FftFreq(N, period)
            fr == Prefix(fc, N \div 2)
            e2 == [e1 EXCEPT !.sampling_time = span,
                             !.sampling_period = period,
                             !.frequency_for_complex = Arr(fc),
                             !.frequency_for_real = Arr(fr)]
        IN  IF Len(fr) = 0
            THEN [engine |-> e2, status |-> "ValueError"]        \* max() of nothing
            ELSE
            LET e3 == [e2 EXCEPT !.max_frequency = SeqMax(fr, Len(fr)),
                                 !.min_frequency = SeqMin(fr, Len(fr))]
            IN  IF e.voltage_values.nd = 0 \/ Len(e.voltage_values.v) = 0
                THEN [engine |-> e3, status |-> "ValueError"]    \* fft of nothing
                ELSE
                LET ac == Fft(e.voltage_values.v)
                    half == Prefix(ac, N \div 2)
                    ar == [k \in 1..Len(half) |-> (CAbs(half[k]) * 2) \div N]
                    e4 == [e3 EXCEPT !.amplitude_complex = Arr(ac)]
                IN  IF Len(ar) = 0
                    THEN [engine |-> [e4 EXCEPT !.amplitude_real = Arr(ar)],
                          status |-> "IndexError"]               \* amplitude_real[0]
                    ELSE [engine |-> [e4 EXCEPT !.amplitude_real =
                                         Arr([ar EXCEPT ![1] = ar[1] \div 2])],
                          status |-> "ok"]

(* ------------------------------- queries ------------------------------- *)
\* the elements of s as a tuple of values
AsTuple(s) == s \o << >>

RECURSIVE ArgMinLastScan(_, _, _, _)
\* a scan that moves on to a later element that is as small
ArgMinLastScan(s, i, best, least) ==
    IF i > Len(s) THEN best
    ELSE IF BigLess(least, s[i]) THEN ArgMinLastScan(s, i + 1, best, least)
                                 ELSE ArgMinLastScan(s, i + 1, i, s[i])

ArgMinLast(s) == ArgMinLastScan(s, 2, 1, s[1])

RECURSIVE ArgMinScan(_, _, _, _)
\* best is the first index of least, the least of s[1] .. s[i - 1]
ArgMinScan(s, i, best, least) ==
    IF i > Len(s) THEN best
    ELSE IF BigLess(s[i], least) THEN ArgMinScan(s, i + 1, i, s[i])
                                 ELSE ArgMinScan(s, i + 1, best, least)

\* np.argmin of a non-empty array of squares: the first index of the least
\* element (1-based here, 0-based in numpy)
ArgMin(s) == ArgMinScan(s, 2, 1, s[1])

\* (self._frequency_for_real - f)**2;  nan - f is nan, which argmin treats
\* as the least element
SqDist(e, f) ==
    AsTuple([k \in 1..Len(e.frequency_for_real.v) |->
               IF e.frequency_for_real.v[k] = NaN THEN BigZero
               ELSE BigSq(e.frequency_for_real.v[k] - f)])

\* np.argmin((self._frequency_for_real - f)**2); 0 when argmin raises
NearIndex(e, f) ==
    IF Len(e.frequency_for_real.v) = 0 THEN 0 ELSE ArgMin(SqDist(e, f))

\* line 286: self._amplitude_real[near_index]
AmplitudeAt(e, near_index) ==
    CASE near_index = 0 -> [status |-> "ValueError", val |-> 0]
      [] near_index > Len(e.amplitude_real.v) -> [status |-> "IndexError", val |-> 0]
      [] OTHER -> [status |-> "ok", val |-> e.amplitude_real.v[near_index]]

\* DFTFFTProcessor.get_frequency_component
GetFrequencyComponent(e, f) == AmplitudeAt(e, NearIndex(e, f))

\* lines 306-309 for the two indices of lines 304-305
ComponentsBetween(e, a, start_near_index, end_near_index) ==
    CASE start_near_index = 0 -> [status |-> "ValueError", val |-> NULL_ARRAY]
      [] start_near_index = end_near_index ->
           [status |-> GetFrequencyComponent(e, a).status,
            val |-> IF GetFrequencyComponent(e, a).status = "ok"
                    THEN Scalar(GetFrequencyComponent(e, a).val)
                    ELSE NULL_ARRAY]
      [] OTHER ->
           [status |-> "ok",
            val |-> Arr(SubSeq(e.amplitude_real.v, start_near_index,
                               IF end_near_index - 1 < Len(e.amplitude_real.v)
                               THEN end_near_index - 1
                               ELSE Len(e.amplitude_real.v)))]

\* DFTFFTProcessor.get_frequency_components
GetFrequencyComponents(e, a, b) ==
    ComponentsBetween(e, a, NearIndex(e, a), NearIndex(e, b))

\* lines 338-340 without the clamp
ResolvedOrderUnclamped(e, fundamental_frequency, max_order, insert_invalid_contents) ==
    max_order

\* lines 338-340: the max_order the contents are computed for
ResolvedOrder(e, fundamental_frequency, max_order, insert_invalid_contents) ==
    IF ~insert_invalid_contents
       /\ ProductExceeds(max_order, fundamental_frequency, e.max_frequency)
    THEN TruncDiv(e.max_frequency, fundamental_frequency)
    ELSE max_order

\* the quotient a / b without the factor 100
PercentOfPlain(a, b) == [n |-> a, d |-> b]

\* a / b * 100.0 as an exact fraction
PercentOf(a, b) == [n |-> a * PERCENT, d |-> b]

\* lines 342-344 for the resolved order and the amplitude base of the
\* fundamental: entry i + 1 is order i
ContentsOf(e, fundamental_frequency, order, base) ==
    IF base.status # "ok"
    THEN [status |-> base.status, val |-> NULL_ARRAY]
    ELSE [status |-> "ok",
          val |-> Arr(AsTuple([i \in 1..(IF order < 0 THEN 0 ELSE order + 1) |->
                        PercentOf(GetFrequencyComponent(e,
                                      fundamental_frequency * (i - 1)).val,
                                  base.val)]))]

\* DFTFFTProcessor.get_frequency_contents
GetFrequencyContents(e, fundamental_frequency, max_order, insert_invalid_contents) ==
    ContentsOf(e, fundamental_frequency,
               ResolvedOrder(e, fundamental_frequency, max_order,
                             insert_invalid_contents),
               GetFrequencyComponent(e, fundamental_frequency))

RECURSIVE SumSq(_, _, _)
\* the sum of the squares of the numerators of c[lo] .. c[hi], by halves
SumSq(c, lo, hi) ==
    IF lo > hi THEN BigZero
    ELSE IF lo = hi THEN BigSq(c[lo].n)
    ELSE LET mid == (lo + hi) \div 2
         IN  BigAdd(SumSq(c, lo, mid), SumSq(c, mid + 1, hi))

\* float(np.sqrt((c[2:]**2).sum())) of contents c that share the divisor d:
\* the root is kept as the sum under it.  No summand: 0.0.  A zero divisor
\* makes every summand inf or nan (0/0), and the sum nan once one is nan.
RootSumSquares(c) ==
    LET d == IF Len(c) = 0 THEN 1 ELSE c[1].d
    IN  CASE Len(c) <= 2 -> [kind |-> "num", sumsq |-> BigZero, d |-> 1]
          [] d = 0 /\ (\E i \in 3..Len(c) : c[i].n = 0) ->
                [kind |-> "nan", sumsq |-> BigZero, d |-> 0]
          [] d = 0 -> [kind |-> "inf", sumsq |-> BigZero, d |-> 0]
          [] OTHER -> LET s == SumSq(c, 3, Len(c))
                      IN  [kind |-> "num", sumsq |-> s,
                           d |-> IF s = BigZero THEN 1 ELSE d]

\* lines 364-367 on the contents c that line 364 got
ThdOfContents(c) ==
    IF c.status # "ok"
    THEN [status |-> c.status, val |-> RootSumSquares(<< >>)]
    ELSE [status |-> "ok", val |-> RootSumSquares(c.val.v)]

\* DFTFFTProcessor.get_total_harmonic_distribution
GetTotalHarmonicDistribution(e, fundamental_frequency) ==
    ThdOfContents(GetFrequencyContents(e, fundamental_frequency, THD_MAX_ORDER, FALSE))

\* bool(a) of a numpy array a: "error" where it raises.  The truth value of
\* an empty array is False in older numpy builds and an error in newer ones
\* (strict).
PyBool(a, strict) ==
    CASE Len(a) > 1 -> "error"
      [] Len(a) = 0 -> IF strict THEN "error" ELSE "false"
      [] OTHER -> IF a[1] THEN "true" ELSE "false"

\* the length numpy broadcasts lengths m and n to; -1 where it raises
Broadcast(m, n) ==
    CASE m = n -> m
      [] m = 1 -> n
      [] n = 1 -> m
      [] OTHER -> 0 - 1

CZero == [re |-> 0, im |-> 0]

\* np.where(cond, amp, 0) of 1-d arrays that broadcast to length L
NpWhere(cond, amp, L) ==
    [k \in 1..L |->
        IF cond[IF Len(cond) = 1 THEN 1 ELSE k]
        THEN amp[IF Len(amp) = 1 THEN 1 ELSE k]
        ELSE CZero]

\* np.abs(self._frequency_for_complex) >= min_freq (any comparison with nan
\* is False)
UpperConditions(e, min_freq) ==
    [k \in 1..Len(e.frequency_for_complex.v) |->
        e.frequency_for_complex.v[k] # NaN
        /\ Abs(e.frequency_for_complex.v[k]) >= min_freq]

LowerConditions(e, max_freq) ==
    [k \in 1..Len(e.frequency_for_complex.v) |->
        e.frequency_for_complex.v[k] # NaN
        /\ Abs(e.frequency_for_complex.v[k]) <= max_freq]

\* the waveform a mask gives: lines 393-395
MaskedWaveform(e, mask) ==
    LET L == Broadcast(Len(mask), Len(e.amplitude_complex.v))
    IN  CASE L < 0 -> [status |-> "ValueError", time |-> NULL_ARRAY, val |-> NULL_ARRAY]
          [] L = 0 -> [status |-> "ValueError", time |-> NULL_ARRAY, val |-> NULL_ARRAY]
          [] OTHER -> [status |-> "ok", time |-> e.second_values,
                       val |-> Arr(Ifft(NpWhere(mask, e.amplitude_complex.v, L)))]

\* DFTFFTProcessor.get_particular_frequencies_waveform.  Python's
\* "x and y" is y when bool(x) is true and x otherwise.
GetParticularFrequenciesWaveform(e, min_freq, max_freq, strict) ==
    LET upper_conditions == UpperConditions(e, min_freq)
        lower_conditions == LowerConditions(e, max_freq)
        truth == PyBool(upper_conditions, strict)
    IN  IF truth = "error"
        THEN [status |-> "ValueError", time |-> NULL_ARRAY, val |-> NULL_ARRAY]
        ELSE MaskedWaveform(e, IF truth = "true" THEN lower_conditions
                                                 ELSE upper_conditions)

(* ------------------------ objects and references ----------------------- *)
(* Python binds attributes to objects.  A heap lists the array objects     *)
(* that exist; an array's place in it is its identity, and the module's    *)
(* NULL_ARRAY (line 4) is the first.  An object is an array of reals, an   *)
(* array of complex numbers, or a view a[:n] that shares the memory of the *)
(* array it was sliced from.  An assignment to an attribute binds it to    *)
(* another object; only an in-place operation changes an object.           *)
RealCell(a) == [real |-> a]

ComplexCell(a) == [complex |-> a]

ViewCell(of, n) == [view |-> [of |-> of, n |-> n]]

\* the reference to the module-level NULL_ARRAY
NullRef == 1

HeapInit == << RealCell(NULL_ARRAY) >>

\* the array an object holds in its own memory
Stored(c) == IF "real" \in DOMAIN c THEN c.real ELSE c.complex

\* the value of the array that r refers to
Deref(h, r) ==
    IF "view" \in DOMAIN h[r]
    THEN LET b == Stored(h[h[r].view.of])
         IN  [b EXCEPT !.v = Prefix(b.v, h[r].view.n)]
    ELSE Stored(h[r])

\* the loader's attributes: every array is the one NULL_ARRAY object
RefLoaderInit ==
    [filename |-> "", second_values |-> NullRef, voltage_values1 |-> NullRef,
     voltage_values2 |-> NullRef, has_2ch |-> FALSE]

\* a reset that empties the arrays the loader holds instead of letting go
\* of them
RefLoaderResetInPlace(h, l) ==
    IF l.filename # ""
    THEN [heap |-> [r \in 1..Len(h) |->
                      IF r \in { l.second_values, l.voltage_values1, l.voltage_values2 }
                      THEN RealCell(NULL_ARRAY) ELSE h[r]],
          loader |-> [l EXCEPT !.filename = "", !.has_2ch = FALSE]]
    ELSE [heap |-> h, loader |-> l]

\* lines 53-55: self.__init__() binds the attributes to NULL_ARRAY again
RefLoaderReset(h, l) ==
    [heap |-> h, loader |-> IF l.filename # "" THEN RefLoaderInit ELSE l]

\* the loader with the arrays its attributes refer to
DerefLoader(h, l) ==
    [l EXCEPT !.second_values = Deref(h, @),
              !.voltage_values1 = Deref(h, @),
              !.voltage_values2 = Deref(h, @)]

\* load_csv: np.loadtxt makes a new matrix, and the attributes are bound to
\* its rows
RefLoadCsvOutcome(h, l, f) ==
    LET reset == RefLoaderReset(h, l)
        named == [reset.loader EXCEPT !.filename = f.name]
    IN  CASE f.kind = "missing" ->
                [heap |-> reset.heap, loader |-> named, status |-> "Exception"]
          [] f.kind = "malformed" ->
                [heap |-> reset.heap, loader |-> named, status |-> "ValueError"]
          [] OTHER ->
                LET m == LoadTxtT(f)
                    rows == [i \in 1..Len(m.items) |-> Len(reset.heap) + i]
                    o == LoaderStore(named, [nd |-> m.nd, items |-> rows])
                IN  [heap |-> reset.heap \o [i \in 1..Len(m.items) |-> RealCell(m.items[i])],
                     loader |-> o.loader, status |-> o.status]

\* DFTFFTProcessor.__init__: the spectrum attributes are the one NULL_ARRAY
RefEngineInit(second_values, voltage_values) ==
    [EngineInit(second_values, voltage_values)
        EXCEPT !.frequency_for_complex = NullRef,
               !.frequency_for_real = NullRef,
               !.amplitude_complex = NullRef,
               !.amplitude_real = NullRef]

RefNoEngine == [RefEngineInit(NullRef, NullRef) EXCEPT !.exists = FALSE]

\* from_csv_loader hands the loader's arrays themselves to the constructor
RefFromCsvLoaderOutcome(l, ch) ==
    LET o == FromCsvLoaderOutcome(l, ch)
    IN  [o EXCEPT !.engine =
            IF o.made
            THEN RefEngineInit(o.engine.second_values, o.engine.voltage_values)
            ELSE RefNoEngine]

\* the engine with the arrays its attributes refer to
DerefEngine(h, e) ==
    [e EXCEPT !.second_values = Deref(h, @),
              !.voltage_values = Deref(h, @),
              !.frequency_for_complex = Deref(h, @),
              !.frequency_for_real = Deref(h, @),
              !.amplitude_complex = Deref(h, @),
              !.amplitude_real = Deref(h, @)]

\* an assignment that writes the values of the new array into the object
\* the attribute is bound to already
RebindInPlace(h, old, c) ==
    [heap |-> [h EXCEPT ![old] = IF "view" \in DOMAIN c
                                 THEN RealCell(Deref(Append(h, c), Len(h) + 1))
                                 ELSE c],
     ref |-> old]

\* self.x = <new array>: the attribute is bound to a new object, and the
\* object it was bound to stays as it is
Rebind(h, old, c) == [heap |-> Append(h, c), ref |-> Len(h) + 1]

\* line 267 writes through self._amplitude_real
HalveTarget(e) == e.amplitude_real

\* a[0] /= 2.0 on the array of reals that r refers to; a view writes into
\* the array it was sliced from
HalveInPlace(h, r) ==
    LET b == IF "view" \in DOMAIN h[r] THEN h[r].view.of ELSE r
    IN  [h EXCEPT ![b] = RealCell(Arr(AsTuple([h[b].real.v EXCEPT ![1] = @ \div 2])))]

\* the array attributes dft has assigned when it ends on the engine e (as
\* arrays): none when line 252 or 253 raises, the frequencies when a later
\* line raises, else all four
DftAssigned(e) ==
    IF e.second_values.nd = 0 \/ Len(e.second_values.v) = 0 THEN 0
    ELSE IF Len(e.second_values.v) < 2
            \/ e.voltage_values.nd = 0 \/ Len(e.voltage_values.v) = 0 THEN 2
    ELSE 4

\* line 266 before line 267: the amplitudes with bin 0 not yet halved
AmplitudeBeforeHalving(e) ==
    LET N == e.number_of_sample
        half == Prefix(e.amplitude_complex.v, N \div 2)
    IN  Arr(AsTuple([k \in 1..Len(half) |-> (CAbs(half[k]) * 2) \div N]))

\* lines 252-254 and 262-263: the attributes that are numbers
DftScalars(e, to) ==
    [e EXCEPT !.max_frequency = to.max_frequency,
              !.min_frequency = to.min_frequency,
              !.number_of_sample = to.number_of_sample,
              !.sampling_time = to.sampling_time,
              !.sampling_period = to.sampling_period]

\* the heap and the engine once fc and fr are bound
WithFrequencies(e, to, fc, fr) ==
    [heap |-> fr.heap,
     engine |-> [DftScalars(e, to) EXCEPT !.frequency_for_complex = fc.ref,
                                          !.frequency_for_real = fr.ref]]

\* line 260: frequency_for_real is a slice, a view, of the new
\* frequency_for_complex
AssignFrequencyForReal(e, to, fc) ==
    WithFrequencies(e, to, fc,
                    Rebind(fc.heap, e.frequency_for_real,
                           ViewCell(fc.ref, to.number_of_sample \div 2)))

\* lines 256-260
AssignFrequencies(h, e, to) ==
    AssignFrequencyForReal(e, to,
        Rebind(h, e.frequency_for_complex, RealCell(to.frequency_for_complex)))

\* the heap and the engine once ac and ar are bound as well
WithAmplitudes(s, ac, ar) ==
    [heap |-> ar.heap,
     engine |-> [s.engine EXCEPT !.amplitude_complex = ac.ref,
                                 !.amplitude_real = ar.ref]]

\* line 266: np.abs(...) * 2.0 / N is a new array
AssignAmplitudeReal(s, e, to, ac) ==
    WithAmplitudes(s, ac,
                   Rebind(ac.heap, e.amplitude_real,
                          RealCell(AmplitudeBeforeHalving(to))))

\* lines 265-266
AssignAmplitudes(s, e, to) ==
    AssignAmplitudeReal(s, e, to,
        Rebind(s.heap, e.amplitude_complex, ComplexCell(to.amplitude_complex)))

\* line 267, reached when no line before it has raised
HalveBinZero(s, status) ==
    IF status = "ok"
    THEN [s EXCEPT !.heap = HalveInPlace(s.heap, HalveTarget(s.engine))]
    ELSE s

\* dft on the heap, for the outcome o of dft on the arrays and the number n
\* of array attributes it assigns: each is bound to a new array, and line
\* 267 changes one array in place
DftOnHeap(h, e, o, n) ==
    LET s == CASE n = 0 -> [heap |-> h, engine |-> DftScalars(e, o.engine)]
               [] n = 2 -> AssignFrequencies(h, e, o.engine)
               [] OTHER -> HalveBinZero(
                               AssignAmplitudes(AssignFrequencies(h, e, o.engine),
                                                e, o.engine),
                               o.status)
    IN  [heap |-> s.heap, engine |-> s.engine, status |-> o.status]

\* DFTFFTProcessor.dft on the heap
RefDftOutcome(h, e) ==
    DftOnHeap(h, e, DftOutcome(DerefEngine(h, e)), DftAssigned(DerefEngine(h, e)))

\* np.abs(a, out=a): the absolute values written into the array itself
NpAbsInPlace(h, r) ==
    LET a == Deref(h, r)
        b == IF "view" \in DOMAIN h[r] THEN h[r].view.of ELSE r
    IN  [heap |-> [h EXCEPT ![b] =
                     RealCell([a EXCEPT !.v = AsTuple([k \in 1..Len(a.v) |->
                                  IF a.v[k] = NaN THEN NaN ELSE Abs(a.v[k])])])],
         ref |-> r]

\* np.abs(a) of the array of reals that r refers to: a new array
NpAbs(h, r) ==
    LET a == Deref(h, r)
    IN  [heap |-> Append(h, RealCell([a EXCEPT !.v = AsTuple([k \in 1..Len(a.v) |->
                                  IF a.v[k] = NaN THEN NaN ELSE Abs(a.v[k])])])),
         ref |-> Len(h) + 1]

\* the heap when get_particular_frequencies_waveform returns: lines 390 and
\* 391 each take np.abs of frequency_for_complex
RefWaveformHeap(h, e) ==
    NpAbs(NpAbs(h, e.frequency_for_complex).heap, e.frequency_for_complex).heap

\* the callers that share the process, each with a loader and an engine
Callers == { "A", "B" }

CallerOrder == << "A", "B" >>

(***************************************************************************)
(* An array that no attribute refers to any more is freed, and what is     *)
(* left of a heap are the arrays the attributes reach.  Identity is only   *)
(* "the same object or another one", so the arrays left are listed in the  *)
(* order of the attributes that reach them, NULL_ARRAY first.              *)
(***************************************************************************)
\* the references the attributes of one caller hold
RootsOf(pr) ==
    << pr.loader.second_values, pr.loader.voltage_values1, pr.loader.voltage_values2,
       pr.engine.second_values, pr.engine.voltage_values,
       pr.engine.frequency_for_complex, pr.engine.frequency_for_real,
       pr.engine.amplitude_complex, pr.engine.amplitude_real >>

Roots(ps) == << NullRef >> \o RootsOf(ps[CallerOrder[1]]) \o RootsOf(ps[CallerOrder[2]])

\* l with x at its end unless x is in it
Reached(l, x) == IF \E k \in 1..Len(l) : l[k] = x THEN l ELSE Append(l, x)

RECURSIVE Reachable(_, _, _, _)
\* the objects roots[i..] reach besides those of live, a view keeping the
\* array it was sliced from
Reachable(h, roots, i, live) ==
    IF i > Len(roots) THEN live
    ELSE LET r == roots[i]
             base == IF "view" \in DOMAIN h[r] THEN Reached(live, h[r].view.of)
                                               ELSE live
         IN  Reachable(h, roots, i + 1, Reached(base, r))

\* the place of object r among the objects left
PlaceIn(live, r) == CHOOSE k \in 1..Len(live) : live[k] = r

\* the heap and the attributes once the unreachable arrays are gone
Collect(h, ps) ==
    LET live == AsTuple(Reachable(h, Roots(ps), 1, << >>))
    IN  [heap |-> AsTuple([k \in 1..Len(live) |->
                     IF "view" \in DOMAIN h[live[k]]
                     THEN ViewCell(PlaceIn(live, h[live[k]].view.of), h[live[k]].view.n)
                     ELSE h[live[k]]]),
         pairs |-> [p \in Callers |->
                     [loader |-> [ps[p].loader EXCEPT
                                    !.second_values = PlaceIn(live, @),
                                    !.voltage_values1 = PlaceIn(live, @),
                                    !.voltage_values2 = PlaceIn(live, @)],
                      engine |-> [ps[p].engine EXCEPT
                                    !.second_values = PlaceIn(live, @),
                                    !.voltage_values = PlaceIn(live, @),
                                    !.frequency_for_complex = PlaceIn(live, @),
                                    !.frequency_for_real = PlaceIn(live, @),
                                    !.amplitude_complex = PlaceIn(live, @),
                                    !.amplitude_real = PlaceIn(live, @)]]]]

(* ------------------------------ the state ------------------------------ *)
VARIABLES
    loader,     \* the OscilloCsvLoader
    engine,     \* the DFTFFTProcessor the caller holds (exists = FALSE: none yet)
    res,        \* the last call: its name, its arguments under their names,
                \* how it ended (status) and what it returned
    heap,       \* the array objects of the process, NULL_ARRAY first
    pairs,      \* per caller, its loader and its engine with their array
                \* attributes as references into heap
    last        \* the last call on one of pairs: the caller and the call

\* the state of one loader and one engine taken by themselves
alone == << loader, engine, res >>

\* the state of the callers that share one process
shared == << heap, pairs, last >>

vars == << loader, engine, res, heap, pairs, last >>

Init ==
    /\ loader = LoaderInit
    /\ engine = NoEngine
    /\ res = [op |-> "new", status |-> "ok"]
    /\ heap = HeapInit
    /\ pairs = [p \in Callers |-> [loader |-> RefLoaderInit, engine |-> RefNoEngine]]
    /\ last = [caller |-> "", call |-> [op |-> "new", status |-> "ok"]]

(* ------------------------------- inputs -------------------------------- *)
\* p/12 Hz, p in -1 .. MaxFreqNum: on bins, between bins and halfway between
Frequencies == { (FreqDen * p) \div 12 : p \in (0 - 1)..MaxFreqNum }

PositiveFrequencies == { f \in Frequencies : f > 0 }

BandEdges == { 0, FreqDen \div 6, (FreqDen * MaxFreqNum) \div 12 }

Orders == (0 - 1)..MaxOrder

Channels == 1..3

\* short captures and one long dual-channel capture, and fundamentals down
\* to one frequency unit
EdgeFiles ==
    { f \in TableFiles : f.rows <= 3 \/ (f.rows = 6 /\ f.cols = 3 /\ f.dt = 1) }

EdgeFrequencies == { 1, FreqDen \div 5 }

(* ------------------------------- actions ------------------------------- *)
LoadCsv(f) ==
    LET o == LoadCsvOutcome(loader, f)
    IN  /\ loader' = o.loader
        /\ res' = [op |-> "load_csv", status |-> o.status, filename |-> f]
        /\ UNCHANGED engine

FromCsvLoader(ch) ==
    LET o == FromCsvLoaderOutcome(loader, ch)
    IN  /\ engine' = IF o.made THEN o.engine ELSE engine
        /\ res' = [op |-> "from_csv_loader", status |-> o.status,
                   ch |-> ch, made |-> o.made]
        /\ UNCHANGED loader

Dft ==
    /\ engine.exists
    /\ LET o == DftOutcome(engine)
       IN  /\ engine' = o.engine
           /\ res' = [op |-> "dft", status |-> o.status]
    /\ UNCHANGED loader

\* DFTFFTProcessor(second_values, voltage_values) called directly, with n
\* time samples of step dt and the first m samples of the square wave: the
\* constructor takes any two arrays
SquareWave(i) == IF ((i - 1) % 4) < 2 THEN VHigh ELSE 0

Construct(n, m, dt) ==
    /\ engine' = EngineInit(Arr([i \in 1..n |-> (i - 1) * dt]),
                            Arr([i \in 1..m |-> SquareWave(i)]))
    /\ res' = [op |-> "DFTFFTProcessor", status |-> "ok"]
    /\ UNCHANGED loader

\* the records of the queries that ended as o says
ComponentCall(f, o) ==
    [op |-> "get_frequency_component", status |-> o.status,
     f |-> f, amplitude |-> o.val]

ComponentsCall(a, b, o) ==
    [op |-> "get_frequency_components", status |-> o.status,
     a |-> a, b |-> b, amplitudes |-> o.val]

ContentsCall(fundamental_frequency, max_order, insert_invalid_contents, o) ==
    [op |-> "get_frequency_contents", status |-> o.status,
     fundamental_frequency |-> fundamental_frequency,
     max_order |-> max_order,
     insert_invalid_contents |-> insert_invalid_contents,
     contents |-> o.val]

ThdCall(fundamental_frequency, o) ==
    [op |-> "get_total_harmonic_distribution", status |-> o.status,
     fundamental_frequency |-> fundamental_frequency, thd |-> o.val]

WaveformCall(min_freq, max_freq, o) ==
    [op |-> "get_particular_frequencies_waveform", status |-> o.status,
     min_freq |-> min_freq, max_freq |-> max_freq,
     time |-> o.time, voltage |-> o.val]

QueryComponent(f) ==
    /\ engine.exists
    /\ res' = ComponentCall(f, GetFrequencyComponent(engine, f))
    /\ UNCHANGED << loader, engine >>

QueryComponents(a, b) ==
    /\ engine.exists
    /\ res' = ComponentsCall(a, b, GetFrequencyComponents(engine, a, b))
    /\ UNCHANGED << loader, engine >>

QueryContents(f, max_order, insert_invalid_contents) ==
    /\ engine.exists
    /\ res' = ContentsCall(f, max_order, insert_invalid_contents,
                           GetFrequencyContents(engine, f, max_order,
                                                insert_invalid_contents))
    /\ UNCHANGED << loader, engine >>

QueryThd(f) ==
    /\ engine.exists
    /\ res' = ThdCall(f, GetTotalHarmonicDistribution(engine, f))
    /\ UNCHANGED << loader, engine >>

QueryWaveform(min_freq, max_freq, strict) ==
    /\ engine.exists
    /\ res' = WaveformCall(min_freq, max_freq,
                           GetParticularFrequenciesWaveform(engine, min_freq,
                                                            max_freq, strict))
    /\ UNCHANGED << loader, engine >>

\* the first load of a loader
LoadCsvFresh(f) ==
    /\ loader = LoaderInit
    /\ LoadCsv(f)

(***************************************************************************)
(* Spec: the life of a loader and of the engines built from it; the loader *)
(* is loaded again and again, also after an engine was built from it.      *)
(***************************************************************************)
Next ==
    \/ \E f \in Files : LoadCsv(f) /\ UNCHANGED shared
    \/ \E ch \in Channels : FromCsvLoader(ch) /\ UNCHANGED shared
    \/ Dft /\ UNCHANGED shared
    \/ \E f \in BandEdges : QueryComponent(f) /\ UNCHANGED shared

Spec == Init /\ [][Next]_vars

(***************************************************************************)
(* The query specifications follow the use the package makes of an engine: *)
(* one file is loaded, an engine is built from it and transformed, and the *)
(* queries are asked of it (also before dft, and of engines built from a   *)
(* loader that holds nothing or scalars).                                  *)
(***************************************************************************)
\* the amplitude look-ups
NextLookup ==
    \/ \E f \in Files : LoadCsvFresh(f) /\ UNCHANGED shared
    \/ \E ch \in Channels : FromCsvLoader(ch) /\ UNCHANGED shared
    \/ Dft /\ UNCHANGED shared
    \/ \E f \in Frequencies : QueryComponent(f) /\ UNCHANGED shared
    \/ \E a \in Frequencies, b \in Frequencies : QueryComponents(a, b) /\ UNCHANGED shared

SpecLookup == Init /\ [][NextLookup]_vars

\* the harmonic queries
NextHarmonic ==
    \/ \E f \in Files : LoadCsvFresh(f) /\ UNCHANGED shared
    \/ \E ch \in Channels : FromCsvLoader(ch) /\ UNCHANGED shared
    \/ Dft /\ UNCHANGED shared
    \/ \E f \in Frequencies, o \in Orders, i \in BOOLEAN : QueryContents(f, o, i) /\ UNCHANGED shared
    \/ \E f \in PositiveFrequencies : QueryThd(f) /\ UNCHANGED shared

SpecHarmonic == Init /\ [][NextHarmonic]_vars

\* the band filter
NextBand ==
    \/ \E f \in Files : LoadCsvFresh(f) /\ UNCHANGED shared
    \/ \E ch \in Channels : FromCsvLoader(ch) /\ UNCHANGED shared
    \/ Dft /\ UNCHANGED shared
    \/ \E a \in BandEdges, b \in BandEdges, strict \in BOOLEAN : QueryWaveform(a, b, strict) /\ UNCHANGED shared

SpecBand == Init /\ [][NextBand]_vars

\* the distortion figure for a fundamental so small that the spectrum holds
\* more than THD_MAX_ORDER multiples of it
NextEdge ==
    \/ \E f \in EdgeFiles : LoadCsvFresh(f) /\ UNCHANGED shared
    \/ \E ch \in Channels : FromCsvLoader(ch) /\ UNCHANGED shared
    \/ Dft /\ UNCHANGED shared
    \/ \E f \in EdgeFrequencies : QueryThd(f) /\ UNCHANGED shared

SpecEdge == Init /\ [][NextEdge]_vars

\* engines built from a loader and engines constructed directly
NextEngine ==
    \/ \E f \in Files : LoadCsvFresh(f) /\ UNCHANGED shared
    \/ \E ch \in Channels : FromCsvLoader(ch) /\ UNCHANGED shared
    \/ \E n \in 0..MaxSamples, m \in 0..MaxSamples, dt \in 1..MaxStep : Construct(n, m, dt) /\ UNCHANGED shared
    \/ Dft /\ UNCHANGED shared

SpecEngine == Init /\ [][NextEngine]_vars

(***************************************************************************)
(* SpecShared: two callers in one process, each with its own loader and    *)
(* its own engine, whose calls interleave in any order.  The arrays are    *)
(* objects on one heap and the attributes refer to them.  loader, engine   *)
(* and res follow caller B taken alone: they take B's calls and none of    *)
(* A's.                                                                    *)
(***************************************************************************)
\* one capture of each kind, and a name without a file
SharedFiles ==
    { f \in TableFiles : f.rows = 4 /\ ( (f.cols = 3 /\ f.dt = 1)
                                         \/ (f.cols = 2 /\ f.dt = MaxStep) ) }
    \cup { NoTable("wave.csv", "missing") }

\* B loads any of them, A the dual-channel capture
FilesOf(p) == IF p = "B" THEN SharedFiles ELSE { f \in SharedFiles : f.cols = 3 }

\* B builds its engine from either channel, A from the first
ChannelsOf(p) == IF p = "B" THEN 1..2 ELSE { 1 }

SharedFrequency == FreqDen \div 6

LoadCsvOf(p, f) ==
    LET o == RefLoadCsvOutcome(heap, pairs[p].loader, f)
        left == Collect(o.heap, [pairs EXCEPT ![p].loader = o.loader])
    IN  /\ heap' = left.heap
        /\ pairs' = left.pairs
        /\ last' = [caller |-> p,
                    call |-> [op |-> "load_csv", status |-> o.status, filename |-> f]]
        /\ IF p = "B" THEN LoadCsv(f) ELSE UNCHANGED alone

FromCsvLoaderOf(p, ch) ==
    LET o == RefFromCsvLoaderOutcome(pairs[p].loader, ch)
        left == Collect(heap, [pairs EXCEPT ![p].engine = IF o.made THEN o.engine ELSE @])
    IN  /\ heap' = left.heap
        /\ pairs' = left.pairs
        /\ last' = [caller |-> p,
                    call |-> [op |-> "from_csv_loader", status |-> o.status,
                              ch |-> ch, made |-> o.made]]
        /\ IF p = "B" THEN FromCsvLoader(ch) ELSE UNCHANGED alone

DftOf(p) ==
    /\ pairs[p].engine.exists
    /\ LET o == RefDftOutcome(heap, pairs[p].engine)
           left == Collect(o.heap, [pairs EXCEPT ![p].engine = o.engine])
       IN  /\ heap' = left.heap
           /\ pairs' = left.pairs
           /\ last' = [caller |-> p, call |-> [op |-> "dft", status |-> o.status]]
    /\ IF p = "B" THEN Dft ELSE UNCHANGED alone

\* the queries that only read the arrays: lines 271-367 assign no attribute
\* and change no array
QueryComponentOf(p, f) ==
    /\ pairs[p].engine.exists
    /\ last' = [caller |-> p,
                call |-> ComponentCall(f,
                    GetFrequencyComponent(DerefEngine(heap, pairs[p].engine), f))]
    /\ UNCHANGED << heap, pairs >>
    /\ IF p = "B" THEN QueryComponent(f) ELSE UNCHANGED alone

QueryComponentsOf(p, a, b) ==
    /\ pairs[p].engine.exists
    /\ last' = [caller |-> p,
                call |-> ComponentsCall(a, b,
                    GetFrequencyComponents(DerefEngine(heap, pairs[p].engine), a, b))]
    /\ UNCHANGED << heap, pairs >>
    /\ IF p = "B" THEN QueryComponents(a, b) ELSE UNCHANGED alone

QueryContentsOf(p, f, max_order, insert_invalid_contents) ==
    /\ pairs[p].engine.exists
    /\ last' = [caller |-> p,
                call |-> ContentsCall(f, max_order, insert_invalid_contents,
                    GetFrequencyContents(DerefEngine(heap, pairs[p].engine), f,
                                         max_order, insert_invalid_contents))]
    /\ UNCHANGED << heap, pairs >>
    /\ IF p = "B" THEN QueryContents(f, max_order, insert_invalid_contents)
                  ELSE UNCHANGED alone

QueryThdOf(p, f) ==
    /\ pairs[p].engine.exists
    /\ last' = [caller |-> p,
                call |-> ThdCall(f,
                    GetTotalHarmonicDistribution(DerefEngine(heap, pairs[p].engine), f))]
    /\ UNCHANGED << heap, pairs >>
    /\ IF p = "B" THEN QueryThd(f) ELSE UNCHANGED alone

\* get_particular_frequencies_waveform makes arrays of its own, which are
\* gone when it has returned
QueryWaveformOf(p, min_freq, max_freq, strict) ==
    /\ pairs[p].engine.exists
    /\ LET left == Collect(RefWaveformHeap(heap, pairs[p].engine), pairs)
       IN  /\ heap' = left.heap
           /\ pairs' = left.pairs
    /\ last' = [caller |-> p,
                call |-> WaveformCall(min_freq, max_freq,
                    GetParticularFrequenciesWaveform(
                        DerefEngine(heap, pairs[p].engine), min_freq, max_freq, strict))]
    /\ IF p = "B" THEN QueryWaveform(min_freq, max_freq, strict)
                  ELSE UNCHANGED alone

NextShared ==
    \/ \E p \in Callers : \E f \in FilesOf(p) : LoadCsvOf(p, f)
    \/ \E p \in Callers : \E ch \in ChannelsOf(p) : FromCsvLoaderOf(p, ch)
    \/ \E p \in Callers : DftOf(p)
    \/ QueryComponentOf("B", SharedFrequency)
    \/ QueryComponentsOf("B", 0, SharedFrequency)
    \/ QueryContentsOf("B", SharedFrequency, 2, FALSE)
    \/ QueryThdOf("B", SharedFrequency)
    \/ \E p \in Callers : QueryWaveformOf(p, 0, SharedFrequency, FALSE)

SpecShared == Init /\ [][NextShared]_vars


(* ------------------------------- claims -------------------------------- *)
\* dft() has completed on the engine: only its last line gives
\* amplitude_real an element
Transformed(e) == e.exists /\ Len(e.amplitude_real.v) > 0

Freqs == engine.frequency_for_real.v

\* |frequency_for_real[k] - f|
Distance(k, f) == Abs(Freqs[k] - f)

\* k is the lowest index among the bins nearest to f
LowestNearest(k, f) ==
    /\ \A j \in 1..Len(Freqs) : Distance(k, f) <= Distance(j, f)
    /\ \A j \in 1..(k - 1) : Distance(j, f) > Distance(k, f)

\* C1: after dft(), get_frequency_component(f) returns amplitude_real[k] for
\* the bin k whose frequency is nearest to f, the lowest such k when two bins
\* are equally near.
C1_NearestBinLowestIndex ==
    (res.op = "get_frequency_component" /\ Transformed(engine))
    => /\ res.status = "ok"
       /\ \E k \in 1..Len(Freqs) :
             /\ LowestNearest(k, res.f)
             /\ res.amplitude = engine.amplitude_real.v[k]

\* C1 witness: a frequency halfway between two bins of different amplitude
\* was looked up.
C1_Witness ==
    /\ res.op = "get_frequency_component"
    /\ Transformed(engine)
    /\ \E j \in 1..Len(Freqs), k \in 1..Len(Freqs) :
          /\ j < k
          /\ LowestNearest(j, res.f)
          /\ Distance(j, res.f) = Distance(k, res.f)
          /\ engine.amplitude_real.v[j] # engine.amplitude_real.v[k]

Min(a, b) == IF a < b THEN a ELSE b

\* C2: for fundamental > 0 and maxOrder >= 0 on a transformed engine,
\* get_frequency_contents returns maxOrder + 1 entries when invalid contents
\* are inserted and min(maxOrder, floor(max_frequency / fundamental)) + 1
\* otherwise; it returns fewer than maxOrder + 1 exactly when contents are
\* not inserted and maxOrder * fundamental > max_frequency, and then no
\* entry is taken above max_frequency.
C2_ContentsLength ==
    (/\ res.op = "get_frequency_contents"
     /\ Transformed(engine)
     /\ res.fundamental_frequency > 0
     /\ res.max_order >= 0)
    => LET f == res.fundamental_frequency
           maxOrder == res.max_order
           insert == res.insert_invalid_contents
           n == Len(res.contents.v)
       IN  /\ res.status = "ok"
           /\ res.contents.nd = 1
           /\ insert => n = maxOrder + 1
           /\ ~insert => n = Min(maxOrder, engine.max_frequency \div f) + 1
           /\ (n < maxOrder + 1)
                 <=> (~insert /\ ProductExceeds(maxOrder, f, engine.max_frequency))
           /\ ~insert => \A i \in 0..(n - 1) : i * f <= engine.max_frequency

\* C2 witness: a request beyond the spectrum was cut down, to more than the
\* DC entry.
C2_Witness ==
    /\ res.op = "get_frequency_contents"
    /\ Transformed(engine)
    /\ res.fundamental_frequency > 0
    /\ ~res.insert_invalid_contents
    /\ res.status = "ok"
    /\ Len(res.contents.v) > 1
    /\ Len(res.contents.v) < res.max_order + 1

\* the percentage c is exactly p
IsPercent(c, p) == c.d # 0 /\ c.n = p * c.d

\* the fundamental's nearest bin holds a signal
FundamentalPresent(f) ==
    /\ GetFrequencyComponent(engine, f).status = "ok"
    /\ GetFrequencyComponent(engine, f).val # 0

\* C3 as stated: for every fundamental > 0 with a nonzero nearest-bin
\* amplitude, every maxOrder >= 1 and either value of
\* insert_invalid_contents, the contents have an entry for order 1 and it
\* is 100.
C3_FundamentalAlways100 ==
    (/\ res.op = "get_frequency_contents"
     /\ Transformed(engine)
     /\ res.fundamental_frequency > 0
     /\ res.max_order >= 1
     /\ FundamentalPresent(res.fundamental_frequency))
    => /\ res.status = "ok"
       /\ Len(res.contents.v) >= 2
       /\ IsPercent(res.contents.v[2], 100)

\* C3 amended: the same, provided invalid contents are inserted or the
\* fundamental does not lie above max_frequency.
C3_FundamentalIs100InRange ==
    (/\ res.op = "get_frequency_contents"
     /\ Transformed(engine)
     /\ res.fundamental_frequency > 0
     /\ res.max_order >= 1
     /\ FundamentalPresent(res.fundamental_frequency)
     /\ (res.insert_invalid_contents \/ res.fundamental_frequency <= engine.max_frequency))
    => /\ res.status = "ok"
       /\ Len(res.contents.v) >= 2
       /\ IsPercent(res.contents.v[2], 100)

\* C3 witness: contents cut down to the spectrum that still hold the
\* fundamental, between other entries that are not 100.
C3_Witness ==
    /\ res.op = "get_frequency_contents"
    /\ Transformed(engine)
    /\ res.fundamental_frequency > 0
    /\ ~res.insert_invalid_contents
    /\ FundamentalPresent(res.fundamental_frequency)
    /\ res.status = "ok"
    /\ Len(res.contents.v) >= 2
    /\ Len(res.contents.v) < res.max_order + 1
    /\ IsPercent(res.contents.v[2], 100)
    /\ ~IsPercent(res.contents.v[1], 100)

\* the harmonic-content percentages of the orders 0 .. top
HarmonicPercentages(e, f, top, base) ==
    AsTuple([i \in 1..(top + 1) |->
               PercentOf(GetFrequencyComponent(e, f * (i - 1)).val, base.val)])

\* C4: for fundamental > 0 on a transformed engine,
\* get_total_harmonic_distribution is the root of the sum of the squares of
\* the percentages of every order from 2 to floor(max_frequency /
\* fundamental), whatever that order is.
C4_ThdOverWholeSpectrum ==
    (/\ res.op = "get_total_harmonic_distribution"
     /\ Transformed(engine)
     /\ res.fundamental_frequency > 0)
    => /\ res.status = "ok"
       /\ res.thd = RootSumSquares(
                       HarmonicPercentages(engine, res.fundamental_frequency,
                                           engine.max_frequency \div res.fundamental_frequency,
                                           GetFrequencyComponent(engine, res.fundamental_frequency)))

\* C5: when both bounds resolve to the same bin, get_frequency_components
\* returns a 1-d sequence of exactly one element, get_frequency_component(a).
C5_DegenerateRangeIsOneElement ==
    (/\ res.op = "get_frequency_components"
     /\ Transformed(engine)
     /\ NearIndex(engine, res.a) = NearIndex(engine, res.b))
    => /\ res.status = "ok"
       /\ res.amplitudes.nd = 1
       /\ Len(res.amplitudes.v) = 1
       /\ res.amplitudes.v[1] = GetFrequencyComponent(engine, res.a).val

\* C6: load_csv of a table whose column count is neither 2 nor 3 fails.
C6_OtherColumnCountsFail ==
    (/\ res.op = "load_csv"
     /\ res.filename.kind = "table"
     /\ res.filename.cols \notin {2, 3})
    => res.status # "ok"

\* what a loader lets its caller see
Observable(l) ==
    << l.second_values, l.voltage_values1, l.voltage_values2, l.has_2ch >>

\* C7: after a successful load_csv, whatever was loaded or failed to load
\* before, the loader shows what a new loader shows after loading that
\* source; a source of two columns leaves has_2ch False and voltage_values2
\* empty.
C7_ReloadEqualsFreshLoad ==
    (res.op = "load_csv" /\ res.status = "ok")
    => /\ Observable(loader)
            = Observable(LoadCsvOutcome(LoaderInit, res.filename).loader)
       /\ res.filename.cols = 2
            => (~loader.has_2ch /\ loader.voltage_values2 = NULL_ARRAY)

\* C7 witness: a two-column table was loaded into a loader from whose
\* second channel an engine had been built before.
C7_Witness ==
    /\ res.op = "load_csv"
    /\ res.status = "ok"
    /\ res.filename.cols = 2
    /\ res.filename.rows > 1
    /\ engine.exists
    /\ engine.voltage_values.nd = 1
    /\ Len(engine.voltage_values.v) > 1
    /\ engine.voltage_values.v[1] = 0 - 1
    /\ ~loader.has_2ch

\* C8: from_csv_loader(loader, 2) raises ValueError and makes no engine when
\* has_2ch is False; ch = 1 gives an engine over (second_values,
\* voltage_values1), and ch = 2 with has_2ch one over (second_values,
\* voltage_values2).
C8_ChannelSelection ==
    (res.op = "from_csv_loader")
    => /\ (res.ch = 2 /\ ~loader.has_2ch)
             => (res.status = "ValueError" /\ ~res.made)
       /\ res.ch = 1
             => /\ res.status = "ok"
                /\ res.made
                /\ engine = EngineInit(loader.second_values, loader.voltage_values1)
       /\ (res.ch = 2 /\ loader.has_2ch)
             => /\ res.status = "ok"
                /\ res.made
                /\ engine = EngineInit(loader.second_values, loader.voltage_values2)

\* C8 witness: channel 2 was asked of a loader holding a single-channel
\* table.
C8_Witness ==
    /\ res.op = "from_csv_loader"
    /\ res.ch = 2
    /\ ~loader.has_2ch
    /\ loader.second_values.nd = 1
    /\ Len(loader.second_values.v) > 1
    /\ res.status = "ValueError"

\* C9: get_frequency_contents raises for a fundamental <= 0 and for a
\* maxOrder < 0, and get_total_harmonic_distribution for a fundamental <= 0.
C9_InvalidArgumentsRejected ==
    /\ (res.op = "get_frequency_contents" /\ (res.fundamental_frequency <= 0 \/ res.max_order < 0))
          => res.status # "ok"
    /\ (res.op = "get_total_harmonic_distribution" /\ res.fundamental_frequency <= 0)
          => res.status # "ok"

\* the mask with the two conditions combined element by element
ElementwiseAnd(a, b) == [k \in 1..Len(a) |-> a[k] /\ b[k]]

\* C10: on a transformed engine get_particular_frequencies_waveform
\* completes and returns the time samples with the inverse transform of the
\* spectrum in which bin k keeps its amplitude when
\* min_freq <= |frequency_for_complex[k]| <= max_freq and is zero otherwise.
C10_BandMaskElementwise ==
    (res.op = "get_particular_frequencies_waveform" /\ Transformed(engine))
    => /\ res.status = "ok"
       /\ res.time = engine.second_values
       /\ res.voltage =
            Arr(Ifft(NpWhere(ElementwiseAnd(UpperConditions(engine, res.min_freq),
                                            LowerConditions(engine, res.max_freq)),
                             engine.amplitude_complex.v,
                             Len(engine.amplitude_complex.v))))

\* the layout of the real half: the first floor(N/2) bins of
\* frequency_for_complex, bin 0 = DC, non-negative, ascending
RealHalfLayout(e) ==
    LET fr == e.frequency_for_real.v
        fc == e.frequency_for_complex.v
    IN  /\ \A k \in 1..Len(fr) : fr[k] = fc[k]
        /\ Len(fr) > 0 => fr[1] = 0
        /\ \A k \in 1..(Len(fr) - 1) : fr[k] < fr[k + 1]

\* the length invariant of the spectrum, with number_of_sample the number
\* of time samples once dft() has got hold of them
SpectrumLengths(e) ==
    /\ Len(e.amplitude_real.v) = Len(e.frequency_for_real.v)
    /\ Len(e.frequency_for_real.v) = e.number_of_sample \div 2
    /\ (res.op = "dft" /\ e.second_values.nd = 1)
          => e.number_of_sample = Len(e.second_values.v)
    /\ RealHalfLayout(e)

\* C11 as stated: in every state of every engine, before dft() and after
\* any number of dft() calls, len(amplitude_real) = len(frequency_for_real)
\* = floor(number_of_sample / 2), and frequency_for_real is the first
\* floor(N/2) bins of frequency_for_complex.
C11_LengthsOfEveryEngine == engine.exists => SpectrumLengths(engine)

\* C11 amended: the same of every engine whose voltage sequence is as long
\* as its time sequence.
C11_LengthsOfEqualLengthEngine ==
    (/\ engine.exists
     /\ engine.second_values.nd = engine.voltage_values.nd
     /\ Len(engine.second_values.v) = Len(engine.voltage_values.v))
    => SpectrumLengths(engine)

\* C11 witness: dft() has completed on an odd number of samples, so that
\* floor(N/2) is not N/2.
C11_Witness ==
    /\ res.op = "dft"
    /\ res.status = "ok"
    /\ Len(engine.second_values.v) = Len(engine.voltage_values.v)
    /\ engine.number_of_sample % 2 = 1
    /\ Len(engine.amplitude_real.v) = 2

\* the queries that are meant to read only
ReadOnlyQueries ==
    { "get_frequency_component", "get_frequency_components",
      "get_frequency_contents", "get_total_harmonic_distribution",
      "get_particular_frequencies_waveform" }

\* the call c made once more, on the engine e
Rerun(c, e) ==
    CASE c.op = "get_frequency_component" ->
            ComponentCall(c.f, GetFrequencyComponent(e, c.f))
      [] c.op = "get_frequency_components" ->
            ComponentsCall(c.a, c.b, GetFrequencyComponents(e, c.a, c.b))
      [] c.op = "get_frequency_contents" ->
            ContentsCall(c.fundamental_frequency, c.max_order,
                         c.insert_invalid_contents,
                         GetFrequencyContents(e, c.fundamental_frequency,
                                              c.max_order, c.insert_invalid_contents))
      [] c.op = "get_total_harmonic_distribution" ->
            ThdCall(c.fundamental_frequency,
                    GetTotalHarmonicDistribution(e, c.fundamental_frequency))
      [] OTHER ->
            WaveformCall(c.min_freq, c.max_freq,
                         GetParticularFrequenciesWaveform(e, c.min_freq,
                                                          c.max_freq, FALSE))

\* C12: once dft() has completed on an engine, a read-only query on it
\* leaves every attribute of the engine, and every array on the heap, as it
\* was, and what it returns is what the same query returns when it is run
\* again afterwards: queries of several readers return the same values in
\* whatever order they run.
C12_QueriesLeaveEngineUnchanged ==
    [][\A p \in Callers :
          (/\ last'.caller = p
           /\ last'.call.op \in ReadOnlyQueries
           /\ Transformed(DerefEngine(heap, pairs[p].engine)))
          => /\ pairs'[p] = pairs[p]
             /\ DerefEngine(heap', pairs'[p].engine) = DerefEngine(heap, pairs[p].engine)
             /\ heap' = heap
             /\ last'.call = Rerun(last'.call, DerefEngine(heap', pairs'[p].engine))]_vars

\* C12 witness: a query has returned a distortion from an engine that dft()
\* has completed on, while the other caller has a transformed engine too.
C12_Witness ==
    /\ last.caller = "B"
    /\ last.call.op = "get_total_harmonic_distribution"
    /\ last.call.status = "ok"
    /\ Transformed(DerefEngine(heap, pairs["B"].engine))
    /\ Transformed(DerefEngine(heap, pairs["A"].engine))

\* C13: whatever calls of another loader/engine pair come in between, the
\* loader and the engine of a pair hold what they hold when the pair is
\* used alone, every call on the pair ends and returns as it does alone,
\* and the module's NULL_ARRAY stays the empty array.
C13_PairsIndependent ==
    /\ DerefLoader(heap, pairs["B"].loader) = loader
    /\ DerefEngine(heap, pairs["B"].engine) = engine
    /\ last.caller = "B" => last.call = res
    /\ heap[NullRef] = RealCell(NULL_ARRAY)

\* C13 witness: both pairs have a transformed engine, on different
\* voltages; B had a query answered, and then A ran dft().
C13_Witness ==
    /\ Transformed(engine)
    /\ Transformed(DerefEngine(heap, pairs["A"].engine))
    /\ Deref(heap, pairs["A"].engine.voltage_values) # engine.voltage_values
    /\ res.op \in ReadOnlyQueries
    /\ res.status = "ok"
    /\ last.caller = "A"
    /\ last.call.op = "dft"
    /\ last.call.status = "ok"

\* the step is a from_csv_loader of caller p that made an engine
Built(p) ==
    /\ last'.caller = p
    /\ last'.call.op = "from_csv_loader"
    /\ last'.call.made

\* C14: the engine from_csv_loader makes refers to the very arrays of the
\* loader, and whatever call comes later, a load_csv on that loader that
\* succeeds or fails, a dft() or a query on the engine, or a call of the
\* other caller, the engine's second_values and voltage_values keep the
\* samples it was built with.
C14_EngineKeepsItsSamples ==
    [][\A p \in Callers :
          /\ Built(p) =>
               /\ pairs'[p].engine.second_values = pairs'[p].loader.second_values
               /\ pairs'[p].engine.voltage_values =
                     IF last'.call.ch = 1 THEN pairs'[p].loader.voltage_values1
                                          ELSE pairs'[p].loader.voltage_values2
          /\ (pairs[p].engine.exists /\ ~Built(p)) =>
               /\ pairs'[p].engine.exists
               /\ Deref(heap', pairs'[p].engine.second_values)
                     = Deref(heap, pairs[p].engine.second_values)
               /\ Deref(heap', pairs'[p].engine.voltage_values)
                     = Deref(heap, pairs[p].engine.voltage_values)]_vars

\* C14 witness: the loader an engine was built from has loaded another
\* capture since, after dft() ran on the engine: the loader's arrays are
\* other objects with other samples, and the engine still has its own.
C14_Witness ==
    /\ Transformed(engine)
    /\ last.caller = "B"
    /\ last.call.op = "load_csv"
    /\ last.call.status = "ok"
    /\ pairs["B"].loader.second_values # pairs["B"].engine.second_values
    /\ loader.second_values # engine.second_values
    /\ Len(Deref(heap, pairs["B"].engine.voltage_values).v) = 4

=============================================================================
